---- MODULE Spec2Model ----
(***************************************************************************)
(* Model of sync_canton_validators_to_attio.py: the paginated fetch of     *)
(* validator licenses, the activity filter, the de-duplication, and the    *)
(* concurrent upserts into Attio with their retry loop.                    *)
(*                                                                         *)
(* Library behaviour the source relies on:                                 *)
(*  - requests.Response.ok is False exactly for 400 <= status < 600        *)
(*    (it is raise_for_status() not raising);                              *)
(*  - a ThreadPoolExecutor work item stores ANY exception of its function, *)
(*    SystemExit included, in the future; future.result() re-raises it;    *)
(*  - leaving the "with ThreadPoolExecutor" block waits for every          *)
(*    submitted work item (shutdown(wait=True));                           *)
(*  - a dict keeps a key at the position of its first insertion.           *)
(* Time is counted in days, delays in milliseconds.                        *)
(***************************************************************************)
EXTENDS Integers, Sequences, FiniteSets, TLC

\* ------------------------------------------------------------ configuration

ACTIVE_LOOKBACK_DAYS == 7

ATTIO_REQUEST_DELAY_MS == 100

ATTIO_MAX_WORKERS == 8

max_attempts == 4

\* ------------------------------------------------------------------ bounds

\* Page requests one run of the model makes at most.
MaxPages == 2

\* The day on which the run takes place.
Today == 20

\* The unique candidates of a run that loads the pool.
MaxCandidates == 9

\* The network errors the destination gives in a run that loads the pool.
MaxNetErrs == 1

\* ------------------------------------------------------------ license data

\* payload.lastActiveAt, by kind: "none" is a missing, null or empty
\* value, "bad" a string fromisoformat rejects, "nonstr" a truthy value that
\* is no string, "naive" an ISO string without UTC offset, "aware" one with
\* an offset, `at` being its day.
Ts(kind, at) == [kind |-> kind, at |-> at]

\* A license record.  vid "None" is a missing or null payload.validator, ""
\* an empty one;
\* sponsor "None" a missing or null one; meta "none" a missing or falsy
\* payload.metadata, "dict" a mapping (contact "None": no contactPoint),
\* "malformed" a truthy value that is no mapping.
Lic(vid, ts, sponsor, meta, contact) ==
    [vid |-> vid, ts |-> ts, sponsor |-> sponsor, meta |-> meta, contact |-> contact]

Recent == Ts("aware", Today)

AtCutoff == Ts("aware", Today - ACTIVE_LOOKBACK_DAYS)

Stale == Ts("aware", Today - ACTIVE_LOOKBACK_DAYS - 1)

\* The pages the source serves in a run of main.  PageA and PageB are the
\* two pages of the end-to-end scenario: 3 + 1 records, v1 on both pages
\* with differing timestamps.
PageA ==
    << Lic("v1", Recent, "s1", "dict", "c1"),
       Lic("v2", Recent, "None", "malformed", "None"),
       Lic("v3", Stale, "s1", "none", "None") >>

PageB == << Lic("v1", AtCutoff, "s2", "dict", "None") >>

PageC ==
    << Lic("", Recent, "s1", "none", "None"),
       Lic("v2", Ts("bad", 0), "s1", "none", "None"),
       Lic("v3", Recent, "None", "none", "None"),
       Lic("None", Recent, "s1", "dict", "c1"),
       Lic("v2", Ts("none", 0), "s1", "none", "None") >>

PageD == << Lic("v3", Ts("nonstr", 0), "s1", "none", "None") >>

PageE == << Lic("v1", Ts("naive", Today), "s1", "none", "None") >>

SourcePages == {PageA, PageB, PageC, PageD, PageE, << >>}

\* next_page_token of a response; "" is a missing, null or empty token.
PageTokens == {"", "t1", "t2"}

\* The records upsert_validator_into_attio is called on directly: records
\* of the source's schema, each field present or not.
UpsertRecords ==
    { r \in [vid : {"None", "", "v1"}, ts : {Recent}, sponsor : {"None", "", "s1"},
             meta : {"none", "dict"}, contact : {"None", "", "c1"}] :
        r.meta = "dict" \/ r.contact = "None" }

\* What one PUT ends in: a requests exception (response = None) or a
\* response with a status code.
NetErr == [err |-> TRUE, status |-> 0]

Http(status) == [err |-> FALSE, status |-> status]

StatusCodes == {200, 204, 304, 400, 429, 499, 500, 599}

PutOutcomes == {NetErr} \cup {Http(s) : s \in StatusCodes}

\* The outcomes the destination gives in a run that loads the pool.
PoolOutcomes == {NetErr, Http(200)}

\* Validator IDs of the candidates of such a run.
PoolIds == << "p1", "p2", "p3", "p4", "p5", "p6", "p7", "p8", "p9", "p10", "p11" >>

PoolLicenses == [i \in 1..MaxCandidates |-> Lic(PoolIds[i], Recent, "s1", "none", "None")]

\* The outcomes the destination gives in a run of main.
MainOutcomes == {NetErr, Http(200), Http(400)}

\* ----------------------------------------------------------- pure helpers

\* filter_active_licenses, per record.  A record raises out of the filter
\* when lastActiveAt is a truthy non-string (AttributeError on .replace) or
\* parses to a naive datetime (TypeError on the comparison with cutoff);
\* neither is the ValueError the function catches.
LicRaises(lic) == lic.ts.kind \in {"nonstr", "naive"}

\* The comparison made strict: a record at the cutoff is dropped.
LicActiveStrict(lic, now) ==
    /\ lic.ts.kind = "aware"
    /\ lic.ts.at > now - ACTIVE_LOOKBACK_DAYS

LicActive(lic, now) ==
    /\ lic.ts.kind = "aware"
    /\ lic.ts.at >= now - ACTIVE_LOOKBACK_DAYS

FilterRaises(licenses) == \E i \in 1..Len(licenses) : LicRaises(licenses[i])

FilterActive(licenses, now) == SelectSeq(licenses, LAMBDA lic : LicActive(lic, now))

\* The test `x is None`, which lets "" through.
FalsyNoneOnly(x) == x = "None"

\* `not x` of a string or None.
Falsy(x) == x \in {"None", ""}

\* The loop without its dict: every record with a validator ID is kept.
RECURSIVE DedupeKeepAll(_, _)
DedupeKeepAll(acc, lics) ==
    IF lics = << >> THEN acc
    ELSE IF Falsy(Head(lics).vid) THEN DedupeKeepAll(acc, Tail(lics))
    ELSE DedupeKeepAll(Append(acc, Head(lics)), Tail(lics))

\* The loop keeping the first record of a key (setdefault).
RECURSIVE DedupeFirstWins(_, _)
DedupeFirstWins(acc, lics) ==
    IF lics = << >> THEN acc
    ELSE LET lic == Head(lics)
             hit == {i \in 1..Len(acc) : acc[i].vid = lic.vid}
         IN  IF Falsy(lic.vid) \/ hit # {} THEN DedupeFirstWins(acc, Tail(lics))
             ELSE DedupeFirstWins(Append(acc, lic), Tail(lics))

\* The de-duplication loop of main: a dict keyed by validator ID.  A key
\* stays where it was first inserted and holds the value assigned last.
RECURSIVE Dedupe(_, _)
Dedupe(acc, lics) ==
    IF lics = << >> THEN acc
    ELSE LET lic == Head(lics)
             hit == {i \in 1..Len(acc) : acc[i].vid = lic.vid}
         IN  IF Falsy(lic.vid) THEN Dedupe(acc, Tail(lics))
             ELSE IF hit = {} THEN Dedupe(Append(acc, lic), Tail(lics))
             ELSE Dedupe([acc EXCEPT ![CHOOSE i \in hit : TRUE] = lic], Tail(lics))

\* payload.metadata.contactPoint of a record whose metadata is a mapping or
\* falsy.
ContactPoint(lic) == IF lic.meta = "dict" THEN lic.contact ELSE "None"

\* The mapping with the sponsor written whether or not the record has one.
ValuesWithNulls(lic) ==
    {<<"id", lic.vid>>, <<"sponsor", lic.sponsor>>}
        \cup (IF ContactPoint(lic) # "None"
              THEN {<<"contact_email_1", ContactPoint(lic)>>} ELSE {})

\* The `values` mapping of the upsert body, as a set of <<slug, value>>.
Values(lic) ==
    {<<"id", lic.vid>>}
        \cup (IF lic.sponsor # "None" THEN {<<"sponsor", lic.sponsor>>} ELSE {})
        \cup (IF ContactPoint(lic) # "None"
              THEN {<<"contact_email_1", ContactPoint(lic)>>} ELSE {})

\* requests.Response.ok
ResponseOk(status) == ~(400 <= status /\ status < 600)

\* Only HTTP 200 taken as success, every other status below 400 retried.
ClassifyOnly200(o) ==
    IF o.err THEN "retry"
    ELSE IF o.status = 429 THEN "retry"
    ELSE IF 500 <= o.status /\ o.status < 600 THEN "retry"
    ELSE IF ~ResponseOk(o.status) THEN "fail"
    ELSE IF o.status = 200 THEN "ok"
    ELSE "retry"

\* The branch the retry loop takes on one outcome of the PUT: "retry"
\* (should_retry), "fail" (return False) or "ok" (return True).
Classify(o) ==
    IF o.err THEN "retry"
    ELSE IF o.status = 429 THEN "retry"
    ELSE IF 500 <= o.status /\ o.status < 600 THEN "retry"
    ELSE IF ~ResponseOk(o.status) THEN "fail"
    ELSE "ok"

Max(a, b) == IF a >= b THEN a ELSE b

\* The delay without the floor of the 429 branch.
SleepMsNoMax(o, n) == ATTIO_REQUEST_DELAY_MS * n

\* sleep_seconds of the branch taken, in milliseconds.
SleepMs(o, n) ==
    IF ~o.err /\ o.status = 429 THEN Max(1000, ATTIO_REQUEST_DELAY_MS * n)
    ELSE ATTIO_REQUEST_DELAY_MS * n

\* ------------------------------------------------------------------- state

VARIABLES
    token_set,        \* whether os.environ holds ATTIO_API_TOKEN
    pc,               \* where main is: "fetch", "filter", "dedupe", "submit",
                      \* "collect", "unwind", "done"; "caller" when
                      \* upsert_validator_into_attio is called directly
    after,            \* the cursor of the next page request ("" is None)
    gets,             \* the cursors of the page requests sent so far
    responses,        \* the pages received so far, [licenses, next]
    all_licenses,     \* fetch_all_validator_licenses: the pages so far
    fetch_error,      \* "no", or why a page request raised: "status", "body"
    active_licenses,  \* main: the result of the filter
    unique_licenses,  \* main: the result of the de-duplication
    calls,            \* the license_obj of each upsert call, by future
    st,               \* each call: "queued", "attempt", "sleep", "done"
    attempt,          \* each call: the loop variable `attempt`
    values,           \* each call: its `values` mapping, {} until built
    lookups,          \* each call: the get_attio_headers calls it made
    puts,             \* each call: its PUTs, [values, outcome], in order
    sleeps,           \* each call: its time.sleep delays, in order
    result,           \* each call: "none", "True", "False", "Exception",
                      \* "SystemExit"
    counted,          \* the futures as_completed has handed to main
    success_count,
    fail_count,
    reported,         \* whether "Completed sync" was logged
    exit_status       \* -1 while the process runs, then its exit status

fetch_vars == <<after, gets, responses, all_licenses, fetch_error>>

main_vars == <<active_licenses, unique_licenses, counted, success_count,
               fail_count, reported, exit_status>>

call_vars == <<calls, st, attempt, values, lookups, puts, sleeps, result>>

vars == <<token_set, pc, fetch_vars, main_vars, call_vars>>

Calls == 1..Len(calls)

\* The pool not counting a call that sleeps between two attempts.
InFlightNoSleep == {t \in Calls : st[t] = "attempt"}

\* The calls a pool thread is running.
InFlight == {t \in Calls : st[t] \in {"attempt", "sleep"}}

NoCalls ==
    /\ st = << >>
    /\ attempt = << >>
    /\ values = << >>
    /\ lookups = << >>
    /\ puts = << >>
    /\ sleeps = << >>
    /\ result = << >>

MainStart ==
    /\ after = ""
    /\ gets = << >>
    /\ responses = << >>
    /\ all_licenses = << >>
    /\ fetch_error = "no"
    /\ active_licenses = << >>
    /\ unique_licenses = << >>
    /\ counted = {}
    /\ success_count = 0
    /\ fail_count = 0
    /\ reported = FALSE
    /\ exit_status = -1

\* The process starts main with the token set or not.
Init ==
    /\ token_set \in BOOLEAN
    /\ pc = "fetch"
    /\ MainStart
    /\ calls = << >>
    /\ NoCalls

\* The state of one call of upsert_validator_into_attio before a pool thread
\* (or the caller) runs it.
Queued(lic) ==
    /\ calls' = Append(calls, lic)
    /\ st' = Append(st, "queued")
    /\ attempt' = Append(attempt, 0)
    /\ values' = Append(values, {})
    /\ lookups' = Append(lookups, 0)
    /\ puts' = Append(puts, << >>)
    /\ sleeps' = Append(sleeps, << >>)
    /\ result' = Append(result, "none")

\* upsert_validator_into_attio called on one record, outside main.
InitUpsert ==
    /\ token_set \in BOOLEAN
    /\ pc = "caller"
    /\ MainStart
    /\ \E lic \in UpsertRecords : calls = << lic >>
    /\ st = << "queued" >>
    /\ attempt = << 0 >>
    /\ values = << {} >>
    /\ lookups = << 0 >>
    /\ puts = << << >> >>
    /\ sleeps = << << >> >>
    /\ result = << "none" >>

\* ------------------------------------------------ fetch_all_validator_licenses

\* The loop's exit test inverted: it ends on a page that has a token.
FetchPageInverted(page, tok) ==
    /\ pc = "fetch"
    /\ Len(gets) < MaxPages
    /\ gets' = Append(gets, after)
    /\ responses' = Append(responses, [licenses |-> page, next |-> tok])
    /\ all_licenses' = all_licenses \o page
    /\ after' = tok
    /\ pc' = IF tok # "" THEN "filter" ELSE "fetch"
    /\ UNCHANGED <<token_set, fetch_error, main_vars, call_vars>>

\* The cursor never passed on: every request asks for the first page.
FetchPageNoCursor(page, tok) ==
    /\ pc = "fetch"
    /\ Len(gets) < MaxPages
    /\ tok # "" => Len(gets) + 1 < MaxPages
    /\ gets' = Append(gets, "")
    /\ responses' = Append(responses, [licenses |-> page, next |-> tok])
    /\ all_licenses' = all_licenses \o page
    /\ after' = tok
    /\ pc' = IF tok = "" THEN "filter" ELSE "fetch"
    /\ UNCHANGED <<token_set, fetch_error, main_vars, call_vars>>

\* One iteration of the while loop whose response is a 2xx JSON object:
\* the page is appended, its token becomes the cursor, and a page without a
\* token ends the loop (the function returns to main).
FetchPage(page, tok) ==
    /\ pc = "fetch"
    /\ Len(gets) < MaxPages
    /\ tok # "" => Len(gets) + 1 < MaxPages
    /\ gets' = Append(gets, after)
    /\ responses' = Append(responses, [licenses |-> page, next |-> tok])
    /\ all_licenses' = all_licenses \o page
    /\ after' = tok
    /\ pc' = IF tok = "" THEN "filter" ELSE "fetch"
    /\ UNCHANGED <<token_set, fetch_error, main_vars, call_vars>>

\* The error swallowed and the pages fetched so far used as the result.
FetchFailPartial(why) ==
    /\ pc = "fetch"
    /\ Len(gets) < MaxPages
    /\ gets' = Append(gets, after)
    /\ fetch_error' = why
    /\ pc' = "filter"
    /\ UNCHANGED <<token_set, after, responses, all_licenses, main_vars, call_vars>>

\* One iteration whose response has an error status ("status":
\* raise_for_status raises) or a body that is no JSON ("body":
\* response.json() raises): the exception leaves the function and main's try
\* block, and the handler exits with status 1.
FetchFail(why) ==
    /\ pc = "fetch"
    /\ Len(gets) < MaxPages
    /\ gets' = Append(gets, after)
    /\ fetch_error' = why
    /\ pc' = "done"
    /\ exit_status' = 1
    /\ UNCHANGED <<token_set, after, responses, all_licenses, active_licenses,
                   unique_licenses, counted, success_count, fail_count,
                   reported, call_vars>>

\* ------------------------------------------------------------------- main

\* filter_active_licenses(licenses), with `now` read once.  An exception out
\* of the filter is caught by main's handler, which exits with status 1.
Filter(now) ==
    /\ pc = "filter"
    /\ IF FilterRaises(all_licenses)
       THEN /\ pc' = "done"
            /\ exit_status' = 1
            /\ UNCHANGED active_licenses
       ELSE /\ active_licenses' = FilterActive(all_licenses, now)
            /\ pc' = "dedupe"
            /\ UNCHANGED exit_status
    /\ UNCHANGED <<token_set, fetch_vars, unique_licenses, counted,
                   success_count, fail_count, reported, call_vars>>

\* The de-duplication loop and the zeroing of the counters.
DedupeStep ==
    /\ pc = "dedupe"
    /\ unique_licenses' = Dedupe(<< >>, active_licenses)
    /\ success_count' = 0
    /\ fail_count' = 0
    /\ pc' = IF unique_licenses' = << >> THEN "collect" ELSE "submit"
    /\ UNCHANGED <<token_set, fetch_vars, active_licenses, counted, reported,
                   exit_status, call_vars>>

\* executor.submit of the next unique license; after the last one main
\* enters the as_completed loop.
Submit ==
    /\ pc = "submit"
    /\ Len(calls) < Len(unique_licenses)
    /\ Queued(unique_licenses[Len(calls) + 1])
    /\ pc' = IF Len(calls) + 1 = Len(unique_licenses) THEN "collect" ELSE "submit"
    /\ UNCHANGED <<token_set, fetch_vars, main_vars>>

\* What future.result() of a finished call makes the as_completed loop do:
\* True is a success; False, or an Exception caught by the loop's handler,
\* is a failure; SystemExit is no Exception and leaves the loop.
Succeeded(r) == r = "True"

\* The loop without its handler's count: an exception is not counted.
FailedOnlyFalse(r) == r = "False"

Failed(r) == r \in {"False", "Exception"}

\* The loop without its handler: every exception leaves it.
PropagatesException(r) == r \in {"SystemExit", "Exception"}

Propagates(r) == r = "SystemExit"

\* One iteration of the as_completed loop on a finished future.
Collect(t) ==
    /\ pc = "collect"
    /\ t \in Calls \ counted
    /\ st[t] = "done"
    /\ counted' = counted \cup {t}
    /\ success_count' = IF Succeeded(result[t]) THEN success_count + 1 ELSE success_count
    /\ fail_count' = IF Failed(result[t]) THEN fail_count + 1 ELSE fail_count
    /\ pc' = IF Propagates(result[t]) THEN "unwind" ELSE "collect"
    /\ UNCHANGED <<token_set, fetch_vars, active_licenses, unique_licenses,
                   reported, exit_status, call_vars>>

\* as_completed is exhausted: the with block ends, the totals are logged and
\* main returns.
Report ==
    /\ pc = "collect"
    /\ counted = 1..Len(unique_licenses)
    /\ reported' = TRUE
    /\ exit_status' = 0
    /\ pc' = "done"
    /\ UNCHANGED <<token_set, fetch_vars, active_licenses, unique_licenses,
                   counted, success_count, fail_count, call_vars>>

\* SystemExit on its way out of main: the with block waits for every
\* submitted call, neither handler catches it, the process exits with 1.
Unwind ==
    /\ pc = "unwind"
    /\ \A t \in Calls : st[t] = "done"
    /\ exit_status' = 1
    /\ pc' = "done"
    /\ UNCHANGED <<token_set, fetch_vars, active_licenses, unique_licenses,
                   counted, success_count, fail_count, reported, call_vars>>

\* -------------------------------------------------- upsert_validator_into_attio

\* A call ends with `r` (a return value or the exception it raised).
Ends(t, r) ==
    /\ st' = [st EXCEPT ![t] = "done"]
    /\ result' = [result EXCEPT ![t] = r]

\* The validation testing `validator_id is None`, which lets "" through.
NoValidatorIdNoneOnly(lic) == lic.vid = "None"

\* not validator_id
NoValidatorId(lic) == Falsy(lic.vid)

\* A pool thread (at most ATTIO_MAX_WORKERS of them, work items taken in
\* submission order) starts the call: the fields are read, a record
\* without validator ID returns False, otherwise `values` is built and the
\* retry loop is entered.  metadata.get raises AttributeError on a metadata
\* that is no mapping, before the validator ID is looked at.
UpsertStart(t) ==
    /\ t \in Calls
    /\ st[t] = "queued"
    /\ \A u \in 1..(t - 1) : st[u] # "queued"
    /\ Cardinality(InFlight) < ATTIO_MAX_WORKERS
    /\ IF calls[t].meta = "malformed"
       THEN Ends(t, "Exception") /\ UNCHANGED <<attempt, values>>
       ELSE IF NoValidatorId(calls[t])
       THEN Ends(t, "False") /\ UNCHANGED <<attempt, values>>
       ELSE /\ values' = [values EXCEPT ![t] = Values(calls[t])]
            /\ attempt' = [attempt EXCEPT ![t] = 1]
            /\ st' = [st EXCEPT ![t] = "attempt"]
            /\ UNCHANGED result
    /\ UNCHANGED <<token_set, pc, fetch_vars, main_vars, calls, lookups, puts, sleeps>>

\* The loop giving up one attempt late.
LastAttemptLate(n) == n = max_attempts + 1

\* attempt == max_attempts
LastAttempt(n) == n = max_attempts

\* One pass of the retry loop up to its return or its sleep.  The headers
\* are built first: without a token get_attio_headers raises SystemExit and
\* no request is sent.  Otherwise the PUT is sent and ends in `o`.
UpsertAttempt(t, o) ==
    /\ t \in Calls
    /\ st[t] = "attempt"
    /\ lookups' = [lookups EXCEPT ![t] = @ + 1]
    /\ IF ~token_set
       THEN Ends(t, "SystemExit") /\ UNCHANGED <<puts, sleeps>>
       ELSE /\ puts' = [puts EXCEPT ![t] = Append(@, [values |-> values[t], outcome |-> o])]
            /\ IF Classify(o) = "ok"
               THEN Ends(t, "True") /\ UNCHANGED sleeps
               ELSE IF Classify(o) = "fail" \/ LastAttempt(attempt[t])
               THEN Ends(t, "False") /\ UNCHANGED sleeps
               ELSE /\ sleeps' = [sleeps EXCEPT ![t] = Append(@, SleepMs(o, attempt[t]))]
                    /\ st' = [st EXCEPT ![t] = "sleep"]
                    /\ UNCHANGED result
    /\ UNCHANGED <<token_set, pc, fetch_vars, main_vars, calls, attempt, values>>

\* time.sleep returns and the for loop takes the next attempt.
UpsertWake(t) ==
    /\ t \in Calls
    /\ st[t] = "sleep"
    /\ attempt' = [attempt EXCEPT ![t] = @ + 1]
    /\ st' = [st EXCEPT ![t] = "attempt"]
    /\ UNCHANGED <<token_set, pc, fetch_vars, main_vars, calls, values, lookups,
                   puts, sleeps, result>>

\* ---------------------------------------------------------- specifications

\* A run of main.
Next ==
    \/ \E page \in SourcePages, tok \in PageTokens : FetchPage(page, tok)
    \/ \E why \in {"status", "body"} : FetchFail(why)
    \/ Filter(Today)
    \/ DedupeStep
    \/ Submit
    \/ \E t \in Calls : Collect(t)
    \/ Report
    \/ Unwind
    \/ \E t \in Calls : UpsertStart(t)
    \/ \E t \in Calls, o \in MainOutcomes : UpsertAttempt(t, o)
    \/ \E t \in Calls : UpsertWake(t)

Spec == Init /\ [][Next]_vars

\* A run of main in which every HTTP call returns and every thread that can
\* take a step takes one: the requests carry timeout=30, the sleeps are
\* finite, and the pool's threads and main are scheduled by the OS.
SpecLive == Spec /\ WF_vars(Next)

\* main after its de-duplication step, with MaxCandidates unique licenses
\* fetched on one page.
InitPool ==
    /\ token_set = TRUE
    /\ pc = "submit"
    /\ after = ""
    /\ gets = << "" >>
    /\ responses = << [licenses |-> PoolLicenses, next |-> ""] >>
    /\ all_licenses = PoolLicenses
    /\ fetch_error = "no"
    /\ active_licenses = PoolLicenses
    /\ unique_licenses = PoolLicenses
    /\ counted = {}
    /\ success_count = 0
    /\ fail_count = 0
    /\ reported = FALSE
    /\ exit_status = -1
    /\ calls = << >>
    /\ NoCalls

\* The delays taken by the calls 1..n together.
RECURSIVE SleepsUpTo(_)
SleepsUpTo(n) == IF n = 0 THEN 0 ELSE Len(sleeps[n]) + SleepsUpTo(n - 1)

\* The submissions and the pool threads of such a run; the as_completed
\* loop, which only reads finished futures, is left out.
NextPool ==
    \/ Submit
    \/ \E t \in Calls : UpsertStart(t)
    \/ \E t \in Calls, o \in PoolOutcomes :
           /\ o.err => SleepsUpTo(Len(sleeps)) < MaxNetErrs
           /\ UpsertAttempt(t, o)
    \/ \E t \in Calls : UpsertWake(t)

SpecPool == InitPool /\ [][NextPool]_vars

\* One direct call of upsert_validator_into_attio.
NextUpsert ==
    \/ \E t \in Calls : UpsertStart(t)
    \/ \E t \in Calls, o \in PutOutcomes : UpsertAttempt(t, o)
    \/ \E t \in Calls : UpsertWake(t)

SpecUpsert == InitUpsert /\ [][NextUpsert]_vars

\* ------------------------------------------------------------------ claims

\* The outcome classes as the specification words them.
IsNetErr(o) == o.err

Is2xx(o) == ~o.err /\ 200 <= o.status /\ o.status <= 299

Is5xx(o) == ~o.err /\ 500 <= o.status /\ o.status <= 599

Is429(o) == ~o.err /\ o.status = 429

IsRetryable(o) == IsNetErr(o) \/ Is429(o) \/ Is5xx(o)

Outcome(t, i) == puts[t][i].outcome

HasIdentity(lic) == lic.vid \notin {"None", ""}

Returned(t, r) == st[t] = "done" /\ result[t] = r

\* C1: a call on a record with an identity sends at most 4 PUTs, and when
\* each of 4 attempts ended in a retryable outcome the call has returned
\* False with exactly those 4 requests sent.
C1_AtMostFourPuts ==
    \A t \in Calls :
        HasIdentity(calls[t]) =>
            /\ Len(puts[t]) <= 4
            /\ (Len(puts[t]) >= 4 /\ \A i \in 1..4 : IsRetryable(Outcome(t, i)))
                   => Returned(t, "False") /\ Len(puts[t]) = 4

\* C1 witness: four retryable attempts of mixed kinds (a network error, a
\* 429 and a 5xx among them) ended in Failure.
C1_Witness ==
    \E t \in Calls :
        /\ HasIdentity(calls[t])
        /\ Len(puts[t]) = 4
        /\ \A i \in 1..4 : IsRetryable(Outcome(t, i))
        /\ \E i, j, k \in 1..4 :
               IsNetErr(Outcome(t, i)) /\ Is429(Outcome(t, j)) /\ Is5xx(Outcome(t, k))
        /\ Returned(t, "False")

\* C2: when attempts 1..k-1 ended in retryable outcomes and attempt k got a
\* 2xx response, the call has returned True, attempt k is its last PUT and
\* k-1 delays were taken.
C2_SuccessAfterRetries ==
    \A t \in Calls : \A k \in 1..Len(puts[t]) :
        (Is2xx(Outcome(t, k)) /\ \A i \in 1..(k - 1) : IsRetryable(Outcome(t, i)))
            => /\ Returned(t, "True")
               /\ Len(puts[t]) = k
               /\ k <= 4
               /\ Len(sleeps[t]) = k - 1

\* C2 witness: HTTP 500 three times, then a success: Success after 4 PUTs.
C2_Witness ==
    \E t \in Calls :
        /\ Len(puts[t]) = 4
        /\ \A i \in 1..3 : Outcome(t, i) = Http(500)
        /\ Is2xx(Outcome(t, 4))
        /\ Returned(t, "True")

\* C3: a status that is no success (no 2xx) and neither 429 nor 5xx on
\* attempt k ends the call with False at once: attempt k is the last PUT and
\* no delay follows it.
C3_TerminalStatusFails ==
    \A t \in Calls : \A k \in 1..Len(puts[t]) :
        (~IsNetErr(Outcome(t, k)) /\ ~Is2xx(Outcome(t, k)) /\ ~IsRetryable(Outcome(t, k)))
            => /\ Returned(t, "False")
               /\ Len(puts[t]) = k
               /\ Len(sleeps[t]) = k - 1

\* C4: a call returns True only if one of its attempts got a 2xx status, each
\* 429 or 5xx is followed by a retry or the exhaustion of the attempts, and
\* every other status that is no 2xx ends the call with False.
C4_StatusClasses ==
    \A t \in Calls :
        /\ result[t] = "True" => \E i \in 1..Len(puts[t]) : Is2xx(Outcome(t, i))
        /\ \A k \in 1..Len(puts[t]) :
               /\ Is2xx(Outcome(t, k)) => Returned(t, "True") /\ Len(puts[t]) = k
               /\ (Is429(Outcome(t, k)) \/ Is5xx(Outcome(t, k)))
                      => (k < 4 => Len(sleeps[t]) >= k) /\ (k = 4 => Returned(t, "False"))
               /\ (~IsNetErr(Outcome(t, k)) /\ ~Is2xx(Outcome(t, k))
                       /\ ~Is429(Outcome(t, k)) /\ ~Is5xx(Outcome(t, k)))
                      => Returned(t, "False") /\ Len(puts[t]) = k

RECURSIVE PutsUpTo(_)
PutsUpTo(n) == IF n = 0 THEN 0 ELSE Len(puts[n]) + PutsUpTo(n - 1)

TotalPuts == PutsUpTo(Len(puts))

\* The validator IDs of the fetched records that are active on `Today`.
ActiveIds ==
    { all_licenses[i].vid : i \in
        { j \in 1..Len(all_licenses) :
            /\ HasIdentity(all_licenses[j])
            /\ all_licenses[j].ts.kind = "aware"
            /\ all_licenses[j].ts.at >= Today - 7 } }

\* C6: the counters count each finished future handed to main once, by its
\* result, and when the totals are reported every unique active candidate
\* was submitted, has finished and was counted: the two counters sum to the
\* number of unique active candidates.
C6_TallyCoversCandidates ==
    /\ success_count = Cardinality({t \in counted : result[t] = "True"})
    /\ fail_count = Cardinality({t \in counted : result[t] \in {"False", "Exception"}})
    /\ reported =>
           /\ Len(calls) = Cardinality(ActiveIds)
           /\ \A t \in Calls : st[t] = "done" /\ t \in counted
           /\ success_count + fail_count = Cardinality(ActiveIds)

\* C6 witness: the end-to-end scenario (pages of 3 and 1 records, v1 on
\* both) reported with its two candidates counted, one success, one failure.
C6_Witness ==
    /\ all_licenses = PageA \o PageB
    /\ reported
    /\ success_count = 1
    /\ fail_count = 1

\* C7: an exception raised by a call is counted as one failure and leaves
\* main in its loop; unless a call hit the missing credential, a finished
\* run has reported, every call has ended with its own result and was
\* counted, and the exit status is 0 whatever the calls ended in.
C7_WorkerErrorIsOneFailure ==
    /\ \A t \in counted : result[t] = "Exception" =>
           /\ fail_count >= Cardinality({u \in counted : result[u] = "Exception"})
           /\ (\A u \in counted : result[u] # "SystemExit") => pc \in {"collect", "done"}
    /\ (pc = "done" /\ calls # << >> /\ \A u \in Calls : result[u] # "SystemExit") =>
           /\ reported
           /\ exit_status = 0
           /\ \A u \in Calls : st[u] = "done" /\ result[u] # "none" /\ u \in counted
           /\ fail_count = Cardinality({u \in Calls : result[u] \in {"False", "Exception"}})
           /\ success_count = Cardinality({u \in Calls : result[u] = "True"})

\* C7 witness: a finished run with exit status 0 in which one call raised
\* and a sibling, retried once or more, succeeded.
C7_Witness ==
    /\ pc = "done"
    /\ exit_status = 0
    /\ \E t, u \in Calls :
           /\ result[t] = "Exception"
           /\ result[u] = "True"
           /\ Len(puts[u]) >= 2

\* C8: once a page request has failed, main is done with exit status 1 and
\* nothing was filtered, de-duplicated, submitted or reported.
C8_FetchFailureIsFatal ==
    fetch_error # "no" =>
        /\ pc = "done"
        /\ exit_status = 1
        /\ active_licenses = << >>
        /\ unique_licenses = << >>
        /\ calls = << >>
        /\ TotalPuts = 0
        /\ ~reported

\* C8 witness: the second page request failed on its body after a first
\* page with records was fetched.
C8_Witness ==
    /\ fetch_error = "body"
    /\ Len(gets) = 2
    /\ all_licenses # << >>

\* C9: a PUT is sent only once the fetch has ended on a page without token
\* and main has passed the filter and the de-duplication; a call is
\* submitted only in the submit phase; a page is requested only in the fetch
\* phase, before any call is submitted; and once a call is submitted the
\* fetched, filtered and de-duplicated lists no longer change.
C9_PhasesInSequence ==
    [][ /\ TotalPuts' > TotalPuts =>
               /\ pc \in {"submit", "collect", "unwind"}
               /\ after = ""
               /\ gets # << >>
               /\ fetch_error = "no"
        /\ Len(calls') > Len(calls) => pc = "submit"
        /\ Len(gets') > Len(gets) => pc = "fetch" /\ calls = << >>
        /\ calls # << >> =>
               /\ gets' = gets
               /\ all_licenses' = all_licenses
               /\ active_licenses' = active_licenses
               /\ unique_licenses' = unique_licenses ]_vars

\* C9 witness: after two page requests a PUT was sent while main was still
\* submitting.
C9_Witness ==
    /\ Len(gets) = 2
    /\ pc = "submit"
    /\ TotalPuts > 0

\* C10: without the token no request is sent at all, to the source or to
\* the destination, and the process ends with a non-zero status.
C10_NoTokenNoNetwork ==
    ~token_set =>
        /\ gets = << >>
        /\ TotalPuts = 0
        /\ pc = "done" => exit_status # 0

\* The licenses of the first n responses, in the order received.
RECURSIVE PagesUpTo(_)
PagesUpTo(n) == IF n = 0 THEN << >> ELSE PagesUpTo(n - 1) \o responses[n].licenses

\* fetch_all_validator_licenses has returned to main.
FetchReturned == pc # "fetch" /\ fetch_error = "no"

\* C11: the first request carries no cursor, each later request the token
\* of the response before it; the licenses held are the pages received,
\* concatenated in request order; while the loop runs every page received
\* had a token, and when the function has returned the last page received,
\* and no page before it, had none.
C11_PaginationFollowsTokens ==
    /\ \A i \in 1..Len(gets) :
           gets[i] = IF i = 1 THEN "" ELSE responses[i - 1].next
    /\ all_licenses = PagesUpTo(Len(responses))
    /\ Len(gets) = Len(responses) + (IF fetch_error = "no" THEN 0 ELSE 1)
    /\ pc = "fetch" => \A i \in 1..Len(responses) : responses[i].next # ""
    /\ FetchReturned =>
           /\ responses # << >>
           /\ \A i \in 1..Len(responses) :
                  responses[i].next = "" <=> i = Len(responses)

\* C11 witness: two pages with records were fetched, the second one asked
\* for with the token t2 of the first, and the function has returned both.
C11_Witness ==
    /\ FetchReturned
    /\ Len(responses) = 2
    /\ responses[1].next = "t2"
    /\ gets = << "", "t2" >>
    /\ responses[1].licenses # << >>
    /\ responses[2].licenses # << >>
    /\ all_licenses = responses[1].licenses \o responses[2].licenses

\* main has built unique_licenses.
DedupeDone ==
    \/ pc \in {"submit", "collect", "unwind"}
    \/ pc = "done" /\ (reported \/ calls # << >>)

\* The places of the records with identity key k in a list.
Places(lics, k) == {i \in 1..Len(lics) : lics[i].vid = k}

Last(S) == CHOOSE i \in S : \A j \in S : j <= i

\* C12: for each identity key of the active records the de-duplicated list
\* holds exactly one record, the one that comes last with that key in the
\* active list; it holds no other record.
C12_LastRecordWins ==
    DedupeDone =>
        /\ \A i \in 1..Len(active_licenses) :
               HasIdentity(active_licenses[i]) =>
                   LET k == active_licenses[i].vid
                   IN  /\ Cardinality(Places(unique_licenses, k)) = 1
                       /\ unique_licenses[Last(Places(unique_licenses, k))]
                              = active_licenses[Last(Places(active_licenses, k))]
        /\ \A i \in 1..Len(unique_licenses) :
               Places(active_licenses, unique_licenses[i].vid) # {}

\* C12 witness: two differing active records share a key, the earlier one
\* is not kept.
C12_Witness ==
    /\ DedupeDone
    /\ \E i, j \in 1..Len(active_licenses) :
           /\ i < j
           /\ active_licenses[i].vid = active_licenses[j].vid
           /\ active_licenses[i] # active_licenses[j]
           /\ \A u \in 1..Len(unique_licenses) : unique_licenses[u] # active_licenses[i]

\* C13: no call is ever made on a record without validator ID, the
\* de-duplicated list holds none, and the counters count only calls, each
\* on a record with an ID: the records without ID are in neither counter.
C13_NoIdentityNeverWritten ==
    /\ \A t \in Calls : HasIdentity(calls[t])
    /\ \A i \in 1..Len(unique_licenses) : HasIdentity(unique_licenses[i])
    /\ counted \subseteq Calls
    /\ success_count + fail_count
           = Cardinality({t \in counted : HasIdentity(calls[t]) /\ result[t] # "SystemExit"})
    /\ success_count + fail_count <= Cardinality(ActiveIds)

\* C13 witness: a reported run whose fetched records hold an active record
\* with an empty validator ID and one with none at all.
C13_Witness ==
    /\ reported
    /\ calls # << >>
    /\ \E i, j \in 1..Len(all_licenses) :
           /\ all_licenses[i].vid = "" /\ all_licenses[i].ts = Recent
           /\ all_licenses[j].vid = "None" /\ all_licenses[j].ts = Recent

\* filter_active_licenses has returned to main.
FilterReturned == pc = "dedupe" \/ DedupeDone

\* lastActiveAt is a string that fromisoformat accepts.
Parses(lic) == lic.ts.kind \in {"aware", "naive"}

\* The record's timestamp parses and is not before now - window, with the
\* one `now` of the run.
Qualifies(lic) == Parses(lic) /\ lic.ts.at >= Today - 7

\* C14: the list the filter returns holds exactly the fetched records whose
\* timestamp parses and is at or after the cutoff, in their fetched order.
C14_FilterKeepsRecentInOrder ==
    FilterReturned =>
        active_licenses = SelectSeq(all_licenses, Qualifies)

\* C14 witness: the filter has returned; it kept a record exactly at the
\* cutoff behind a more recent one and dropped one with a timestamp that
\* does not parse and one without timestamp.
C14_Witness ==
    /\ FilterReturned
    /\ \E i, j \in 1..Len(active_licenses) :
           /\ i < j
           /\ active_licenses[i].ts.at > Today - 7
           /\ active_licenses[j].ts.at = Today - 7
    /\ \E i, j \in 1..Len(all_licenses) :
           all_licenses[i].ts.kind = "bad" /\ all_licenses[j].ts.kind = "none"

\* C15: whatever timestamps the fetched records carry, the filter returns
\* and the run goes on: a run that has fetched its pages and is done has
\* filtered, de-duplicated and submitted a call for every identity with a
\* qualifying record.
C15_BadTimestampNeverFatal ==
    (FetchReturned /\ pc = "done") =>
        /\ FilterReturned
        /\ Len(calls) = Cardinality(ActiveIds)

\* The calls that have started and have not ended, a sleeping one included.
Running == {t \in Calls : st[t] \notin {"queued", "done"}}

\* C16: at no moment are more than 8 calls running.
C16_AtMostEightInFlight == Cardinality(Running) <= 8

\* C16 witness: 8 calls are running, one of them asleep between two
\* attempts, while a submitted call waits for a thread.
C16_Witness ==
    /\ Cardinality(Running) = 8
    /\ \E t \in Running : st[t] = "sleep"
    /\ \E t \in Calls : st[t] = "queued"

\* main has submitted every unique license.
AllSubmitted ==
    \/ pc \in {"collect", "unwind"}
    \/ pc = "done" /\ (reported \/ calls # << >>)

\* The identity key a PUT is matched on.
PutKey(t, i) == {p \in puts[t][i].values : p[1] = "id"}

\* C17: the calls of a run are on pairwise distinct validator IDs, each an
\* ID of an active record, and once all are submitted there is exactly one
\* call per such ID; the PUTs of two calls never carry the same identity
\* key, and the run sends at most 4 PUTs per unique candidate.
C17_OneCallPerIdentity ==
    /\ \A t, u \in Calls : t # u => calls[t].vid # calls[u].vid
    /\ \A t \in Calls : calls[t].vid \in ActiveIds
    /\ AllSubmitted =>
           /\ {calls[t].vid : t \in Calls} = ActiveIds
           /\ Len(calls) = Cardinality(ActiveIds)
    /\ \A t, u \in Calls : \A i \in 1..Len(puts[t]), j \in 1..Len(puts[u]) :
           t # u => PutKey(t, i) # PutKey(u, j)
    /\ TotalPuts <= 4 * Cardinality(ActiveIds)

\* C17 witness: a reported run with two calls for three active records,
\* two of which share their validator ID; the call on that ID sent 4 PUTs.
C17_Witness ==
    /\ reported
    /\ Len(active_licenses) = 3
    /\ Len(calls) = 2
    /\ \E i, j \in 1..Len(active_licenses) : \E t \in Calls :
           /\ i < j
           /\ active_licenses[i].vid = active_licenses[j].vid
           /\ calls[t].vid = active_licenses[i].vid
           /\ Len(puts[t]) = 4

\* The delay after failed attempt n that ended in outcome o, in
\* milliseconds: base x n, and not under one second after a 429.
Backoff(o, n) ==
    IF Is429(o) /\ ATTIO_REQUEST_DELAY_MS * n < 1000 THEN 1000
    ELSE ATTIO_REQUEST_DELAY_MS * n

\* C18: the n-th delay of a call follows its n-th attempt, n in 1..3, that
\* attempt ended in a retryable outcome and the delay is the backoff of
\* that outcome; a call about to send attempt k has taken k - 1 delays, a
\* sleeping call one delay per attempt sent, and a call that has returned
\* took no delay after its last attempt.
C18_BackoffBetweenAttempts ==
    \A t \in Calls :
        /\ \A n \in 1..Len(sleeps[t]) :
               /\ n <= 3
               /\ n <= Len(puts[t])
               /\ IsRetryable(Outcome(t, n))
               /\ sleeps[t][n] = Backoff(Outcome(t, n), n)
        /\ st[t] = "attempt" =>
               Len(puts[t]) = attempt[t] - 1 /\ Len(sleeps[t]) = attempt[t] - 1
        /\ st[t] = "sleep" =>
               Len(puts[t]) = attempt[t] /\ Len(sleeps[t]) = attempt[t]
        /\ (st[t] = "done" /\ puts[t] # << >>) =>
               Len(sleeps[t]) = Len(puts[t]) - 1

\* C18 witness: a call that has returned after a network error, a 429, a
\* 500 and a fourth failed attempt, with the delays 0.1 s, 1 s and 0.3 s.
C18_Witness ==
    \E t \in Calls :
        /\ st[t] = "done"
        /\ Len(puts[t]) = 4
        /\ IsNetErr(Outcome(t, 1)) /\ Is429(Outcome(t, 2)) /\ Is5xx(Outcome(t, 3))
        /\ IsRetryable(Outcome(t, 4))
        /\ sleeps[t] = << 100, 1000, 300 >>

\* The values a sent payload holds under a slug.
Under(vals, slug) == {p[2] : p \in {q \in vals : q[1] = slug}}

\* The contact point of a record: present when the metadata is a mapping
\* that holds one.
HasContact(lic) == lic.meta = "dict" /\ lic.contact # "None"

\* C20: every PUT of a call carries the payload of the call's first PUT,
\* which is the one built before the loop; it holds the record's validator
\* ID, the sponsor exactly when the record has a non-null one, the contact
\* point exactly when the record has a non-null one, and nothing else.
C20_SamePayloadEveryAttempt ==
    \A t \in Calls : \A i \in 1..Len(puts[t]) :
        LET vals == puts[t][i].values
        IN  /\ vals = puts[t][1].values
            /\ vals = values[t]
            /\ HasIdentity(calls[t])
            /\ Under(vals, "id") = {calls[t].vid}
            /\ Under(vals, "sponsor")
                   = IF calls[t].sponsor # "None" THEN {calls[t].sponsor} ELSE {}
            /\ Under(vals, "contact_email_1")
                   = IF HasContact(calls[t]) THEN {calls[t].contact} ELSE {}
            /\ \A p \in vals : p[1] \in {"id", "sponsor", "contact_email_1"}

\* C20 witness: a call on a record with a contact point and no sponsor
\* has sent 4 PUTs, the last one holding the ID and the contact point.
C20_Witness ==
    \E t \in Calls :
        /\ calls[t].sponsor = "None"
        /\ Len(puts[t]) = 4
        /\ puts[t][4].values = {<<"id", "v1">>, <<"contact_email_1", "c1">>}

\* The run has ended.
Terminated == pc = "done"

\* Every submitted write has ended.
WritesEnded == \A t \in Calls : st[t] = "done"

\* Every submitted write has returned Success or Failure (an exception
\* caught at the call site is a Failure).
WritesSettled ==
    \A t \in Calls : st[t] = "done" /\ result[t] \in {"True", "False", "Exception"}

\* Every page received so far came with a continuation token.
TokenOnEveryPage ==
    fetch_error = "no" /\ \A i \in 1..Len(responses) : responses[i].next # ""

\* C19: every run in which each HTTP call returns and the source gives a
\* page without token ends, with every submitted write returned Success or
\* Failure; and while every page came with a token the reader is still
\* fetching and no write has been submitted or sent.
C19_TerminatesWithWritesSettled ==
    /\ <>(Terminated /\ WritesSettled)
    /\ [](TokenOnEveryPage => (pc = "fetch" /\ calls = << >> /\ TotalPuts = 0))

\* The part of C19 that holds of every run: the run ends with every
\* submitted write ended.
RunTerminates == <>(Terminated /\ WritesEnded)

\* The converse part of C19, which holds as well.
TokenKeepsFetching ==
    TokenOnEveryPage => (pc = "fetch" /\ calls = << >> /\ TotalPuts = 0)

====
